---- MODULE Spec2Model ----
(***************************************************************************)
(* A model of wasp (src/wasp/main.py), a scorer for BI[L]O[U]              *)
(* segmentations.  Three specifications share the definitions below:       *)
(*   SpecSpans  the loop of spans_from_labels, one label per step;         *)
(*   SpecScore  aligned_score applied to two span collections;             *)
(*   Spec       process_file reading lines one by one, then the report of  *)
(*              main_entry_point.                                          *)
(* Floating point values are kept as exact rationals: a score x is the     *)
(* integer x * Scale, a reported ratio is a pair <<numerator, denominator>>.*)
(***************************************************************************)
EXTENDS Integers, Sequences, FiniteSets, TLC

VARIABLES
    \* spans_from_labels
    labels,          \* the labels the loop has consumed so far
    spans,           \* the list of spans emitted so far
    current_start,   \* start of the open span, or NoStart
    current_type,    \* type of the open span, or NoType
    epc,             \* "idle", "loop", "returned", "raised"
    eerror,          \* the ValueError raised by the extractor, or NoError
    \* aligned_score
    gold,            \* the collection of gold spans
    syst,            \* the collection of system spans
    cpc,             \* "idle", "call", "returned", "raised"
    scored,          \* what the call produced: a triple or an error
    \* process_file and main_entry_point
    lines,           \* the lines the loop has taken from the iterable so far
    lineno,          \* i, the 1-based number of the line being handled
    current_block,   \* the lines of the block being collected
    tru_pos,         \* list of the first components of the blocks' triples
    tru,             \* list of the second components
    pos,             \* list of the third components
    pc,              \* "idle", "main", "loop", "returned", "raised",
                     \* "printed", "crashed"
    result,          \* the triple process_file returned
    ferror,          \* the chain of errors that left process_file or main
    report,          \* the P, R and F main printed, as ratios
    \* the round trip: a known set of spans, encoded and extracted again
    known,           \* the set of spans that is encoded as labels
    length,          \* the length of the encoded sequence
    \* shared arguments
    bilou,           \* TRUE: BILOU mode, FALSE: BIO mode
    score            \* name of the similarity function in SCORES

svars == <<labels, spans, current_start, current_type, epc, eerror>>
cvars == <<gold, syst, cpc, scored>>
fvars == <<lines, lineno, current_block, tru_pos, tru, pos, pc, result,
           ferror, report>>
rvars == <<known, length>>
vars == <<labels, spans, current_start, current_type, epc, eerror,
          gold, syst, cpc, scored,
          lines, lineno, current_block, tru_pos, tru, pos, pc, result,
          ferror, report, known, length, bilou, score>>

(***************************************************************************)
(* Bounds                                                                  *)
(***************************************************************************)
MaxLen == 4          \* longest label sequence given to the extractor
MaxPos == 2          \* largest end of a span given to aligned_score
MaxSpans == 2        \* largest collection given to aligned_score
MaxLines == 5        \* longest input given to process_file

(***************************************************************************)
(* Values                                                                  *)
(***************************************************************************)
Types == {"PER", "LOC"}
Actions == {"B", "I", "L", "O", "U"}
Labels == [action : Actions, type : Types]

NoStart == -1
NoType == "None"
NoIndex == -1
NoError == [kind |-> "", text |-> "", at |-> NoIndex, shown |-> ""]

TypedSpan(start, end, type) == [start |-> start, end |-> end, type |-> type]

ValueError(text, at, shown) ==
    [kind |-> "ValueError", text |-> text, at |-> at, shown |-> shown]

\* What a call produces: a value, or a chain of errors (outermost first, each
\* raised "from" the next).
Returned(v) == [raised |-> FALSE, value |-> v, errors |-> <<>>]
Raised(errs) == [raised |-> TRUE, value |-> <<>>, errors |-> errs]
NoResult == Returned(<<>>)

Min(a, b) == IF a <= b THEN a ELSE b
Max(a, b) == IF a >= b THEN a ELSE b
SetMax(S) == CHOOSE x \in S : \A y \in S : y <= x

RECURSIVE Gcd(_, _)
Gcd(a, b) == IF b = 0 THEN a ELSE Gcd(b, a % b)

RECURSIVE LcmUpTo(_)
LcmUpTo(n) == IF n <= 1 THEN 1 ELSE LET m == LcmUpTo(n - 1) IN (m * n) \div Gcd(m, n)

\* A float x is kept as the integer x * Scale; Scale is a multiple of every
\* denominator dice_coef can meet within the bounds, so the division is exact.
MaxEnd == Max(MaxLines, Max(MaxLen, MaxPos))
Scale == LcmUpTo(2 * MaxEnd)

RECURSIVE fsum(_)
\* math.fsum over a list.
fsum(xs) == IF xs = <<>> THEN 0 ELSE Head(xs) + fsum(Tail(xs))

(***************************************************************************)
(* spans_from_labels: the state of the loop is a record                    *)
(* [spans, current_start, current_type, raised, error].                    *)
(***************************************************************************)
ExtractorInit ==
    [spans |-> <<>>, current_start |-> NoStart, current_type |-> NoType,
     raised |-> FALSE, error |-> NoError]

Raise(st, err) == [st EXCEPT !.raised = TRUE, !.error = err]

\* OnB with the closing label's type given to the span it closes.
OnB_ClosingLabelType(st, i, label, mode) ==
    IF st.current_start # NoStart /\ mode
    THEN Raise(st, ValueError("Invalid label at", i, label.action))
    ELSE [st EXCEPT
            !.spans = IF st.current_start # NoStart
                      THEN Append(@, TypedSpan(st.current_start, i, label.type))
                      ELSE @,
            !.current_start = i,
            !.current_type = label.type]

\* "B": closes an open span in BIO mode, refuses it in BILOU mode, then opens.
OnB(st, i, label, mode) ==
    IF st.current_start # NoStart /\ mode
    THEN Raise(st, ValueError("Invalid label at", i, label.action))
    ELSE [st EXCEPT
            !.spans = IF st.current_start # NoStart
                      THEN Append(@, TypedSpan(st.current_start, i, st.current_type))
                      ELSE @,
            !.current_start = i,
            !.current_type = label.type]

\* OnI without the comparison of the types.
OnI_NoTypeCheck(st, i, label, mode) ==
    IF st.current_start = NoStart
    THEN Raise(st, ValueError("Invalid label action at", i, label.action))
    ELSE st

\* "I": needs an open span of the same type.
OnI(st, i, label, mode) ==
    IF st.current_start = NoStart
    THEN Raise(st, ValueError("Invalid label action at", i, label.action))
    ELSE IF label.type # st.current_type
    THEN Raise(st, ValueError("Incoherent label type at", i, label.type))
    ELSE st

\* OnL leaving the span open after closing it.
OnL_KeepsOpen(st, i, label, mode) ==
    IF ~mode
    THEN Raise(st, ValueError("Label L invalid in BIO mode", NoIndex, label.action))
    ELSE IF st.current_start = NoStart
    THEN Raise(st, ValueError("Invalid label at", i, label.action))
    ELSE IF label.type # st.current_type
    THEN Raise(st, ValueError("Incoherent label type at", i, label.action))
    ELSE [st EXCEPT
            !.spans = Append(@, TypedSpan(st.current_start, i + 1, st.current_type))]

\* "L": BILOU only; closes the open span of the same type at i + 1.
\* The message of the BIO refusal names the action and no index.
OnL(st, i, label, mode) ==
    IF ~mode
    THEN Raise(st, ValueError("Label L invalid in BIO mode", NoIndex, label.action))
    ELSE IF st.current_start = NoStart
    THEN Raise(st, ValueError("Invalid label at", i, label.action))
    ELSE IF label.type # st.current_type
    THEN Raise(st, ValueError("Incoherent label type at", i, label.action))
    ELSE [st EXCEPT
            !.spans = Append(@, TypedSpan(st.current_start, i + 1, st.current_type)),
            !.current_start = NoStart,
            !.current_type = NoType]

\* OnO closing the open span in both modes.
OnO_ClosesInBilou(st, i, label, mode) ==
    IF st.current_start = NoStart
    THEN st
    ELSE [st EXCEPT
            !.spans = Append(@, TypedSpan(st.current_start, i, st.current_type)),
            !.current_start = NoStart,
            !.current_type = NoType]

\* "O": closes an open span in BIO mode, refuses it in BILOU mode.
OnO(st, i, label, mode) ==
    IF st.current_start = NoStart
    THEN st
    ELSE IF mode
    THEN Raise(st, ValueError("Invalid label at", i, label.action))
    ELSE [st EXCEPT
            !.spans = Append(@, TypedSpan(st.current_start, i, st.current_type)),
            !.current_start = NoStart,
            !.current_type = NoType]

\* OnU emitting [i, i) and not [i, i + 1).
OnU_EmptySpan(st, i, label, mode) ==
    IF ~mode
    THEN Raise(st, ValueError("Label U invalid in BIO mode", NoIndex, label.action))
    ELSE IF st.current_start # NoStart
    THEN Raise(st, ValueError("Invalid label at", i, label.action))
    ELSE [st EXCEPT !.spans = Append(@, TypedSpan(i, i, label.type))]

\* "U": BILOU only; a one-token span, refused while a span is open.
OnU(st, i, label, mode) ==
    IF ~mode
    THEN Raise(st, ValueError("Label U invalid in BIO mode", NoIndex, label.action))
    ELSE IF st.current_start # NoStart
    THEN Raise(st, ValueError("Invalid label at", i, label.action))
    ELSE [st EXCEPT !.spans = Append(@, TypedSpan(i, i + 1, label.type))]

\* One iteration of the loop on the label at the 0-based index i.
LoopBody(st, i, label, mode) ==
    CASE label.action = "B" -> OnB(st, i, label, mode)
      [] label.action = "I" -> OnI(st, i, label, mode)
      [] label.action = "L" -> OnL(st, i, label, mode)
      [] label.action = "O" -> OnO(st, i, label, mode)
      [] label.action = "U" -> OnU(st, i, label, mode)
      [] OTHER -> st

\* AfterLoop closing the open span at i and not at i + 1.
AfterLoop_EndsAtLastIndex(st, n, mode) ==
    IF st.current_start = NoStart
    THEN st
    ELSE IF mode
    THEN Raise(st, ValueError("Unclosed segment", NoIndex, ""))
    ELSE [st EXCEPT
            !.spans = Append(@, TypedSpan(st.current_start, n - 1, st.current_type))]

\* After the loop over n labels (i is then n - 1, so i + 1 = n).
AfterLoop(st, n, mode) ==
    IF st.current_start = NoStart
    THEN st
    ELSE IF mode
    THEN Raise(st, ValueError("Unclosed segment", NoIndex, ""))
    ELSE [st EXCEPT
            !.spans = Append(@, TypedSpan(st.current_start, n, st.current_type))]

RECURSIVE RunLoop(_, _, _, _)
\* The loop from index k (0-based) on, stopping at the first raise.
RunLoop(st, ls, k, mode) ==
    IF st.raised \/ k >= Len(ls)
    THEN st
    ELSE RunLoop(LoopBody(st, k, ls[k + 1], mode), ls, k + 1, mode)

\* The call spans_from_labels(labels, bilou): its final state, whose .spans
\* is the returned list when .raised is FALSE.
spans_from_labels(ls, mode) ==
    LET st == RunLoop(ExtractorInit, ls, 0, mode)
    IN  IF st.raised THEN st ELSE AfterLoop(st, Len(ls), mode)

(***************************************************************************)
(* Similarity functions and the registry SCORES                            *)
(***************************************************************************)
exact_coef(a, b) == IF a = b THEN Scale ELSE 0

\* dice_coef without the factor 2.
dice_coef_NoDouble(a, b) ==
    IF a.type # b.type
    THEN 0
    ELSE (Max(Min(a.end, b.end) - Max(a.start, b.start), 0) * Scale)
            \div (a.end - a.start + b.end - b.start)

dice_coef(a, b) ==
    IF a.type # b.type
    THEN 0
    ELSE (2 * Max(Min(a.end, b.end) - Max(a.start, b.start), 0) * Scale)
            \div (a.end - a.start + b.end - b.start)

SCORES == {"strict", "dice"}

\* SCORES[name](a, b)
Similarity(name, a, b) ==
    IF name = "strict" THEN exact_coef(a, b) ELSE dice_coef(a, b)

(***************************************************************************)
(* aligned_score                                                           *)
(***************************************************************************)
RECURSIVE SumOfRowMaxima(_, _, _)
\* A matching that is not one-to-one: every system span takes its best gold
\* span, whether or not another system span took it too.
SumOfRowMaxima(rows, cols, name) ==
    IF rows = {} \/ cols = {}
    THEN 0
    ELSE LET s == CHOOSE x \in rows : TRUE
         IN  SetMax({Similarity(name, g, s) : g \in cols})
               + SumOfRowMaxima(rows \ {s}, cols, name)

RECURSIVE Assignment(_, _, _)
\* -cost_matrix[row_ind, col_ind].sum() for the optimum linear_sum_assignment
\* returns: the largest total similarity of a one-to-one assignment that
\* pairs every element of the smaller side.  rows are system spans, columns
\* gold spans, the entry is score(g, s).
Assignment(rows, cols, name) ==
    IF rows = {} \/ cols = {}
    THEN 0
    ELSE IF Cardinality(rows) <= Cardinality(cols)
    THEN LET s == CHOOSE x \in rows : TRUE
         IN  SetMax({Similarity(name, g, s) + Assignment(rows \ {s}, cols \ {g}, name)
                       : g \in cols})
    ELSE LET g == CHOOSE x \in cols : TRUE
         IN  SetMax({Similarity(name, g, s) + Assignment(rows \ {s}, cols \ {g}, name)
                       : s \in rows})

RECURSIVE SelfSum(_, _)
\* math.fsum(score(x, x) for x in xs)
SelfSum(xs, name) ==
    IF xs = {}
    THEN 0
    ELSE LET x == CHOOSE y \in xs : TRUE
         IN  Similarity(name, x, x) + SelfSum(xs \ {x}, name)

\* aligned_score(gold, syst, score).  With no system span the list of rows is
\* empty, np.array gives a 1-D array and linear_sum_assignment refuses it with
\* a ValueError; otherwise the triple is (total_score, pos, tru): the matched
\* score, the sum over the system spans, the sum over the gold spans.
aligned_score(g, s, name) ==
    IF s = {}
    THEN Raised(<<ValueError("expected a matrix (2-D array)", NoIndex, "")>>)
    ELSE Returned(<<Assignment(s, g, name), SelfSum(s, name), SelfSum(g, name)>>)

(***************************************************************************)
(* process_label, with the default --label-regex: any characters (the     *)
(* group "type"), an underscore, one of B, I, L, O, U (the group "action"). *)
(* A raw label is a sequence of characters.                                *)
(***************************************************************************)
RECURSIVE Join(_)
Join(cs) == IF cs = <<>> THEN "" ELSE Head(cs) \o Join(Tail(cs))

\* re.match: the greedy group "type" leaves the "_" at the last position that is
\* followed by one of B, I, L, O, U; what comes after the action is ignored.
process_label(label) ==
    LET at == {k \in 1..(Len(label) - 1) :
                 label[k] = "_" /\ label[k + 1] \in Actions}
    IN  IF at = {}
        THEN Raised(<<ValueError("Invalid label", NoIndex, label)>>)
        ELSE LET k == SetMax(at)
             IN  Returned([action |-> label[k + 1],
                           type |-> Join(SubSeq(label, 1, k - 1))])

(***************************************************************************)
(* process_block                                                           *)
(***************************************************************************)
gold_column == -1
syst_column == -2

IndexError == [kind |-> "IndexError", text |-> "list index out of range",
               at |-> NoIndex, shown |-> ""]

RECURSIVE Split(_, _, _)
\* line.split(): the maximal runs of characters other than the blank.
\* cur is the column being read, done the columns read so far.
Split(line, cur, done) ==
    IF line = <<>>
    THEN IF cur = <<>> THEN done ELSE Append(done, cur)
    ELSE IF Head(line) = " "
    THEN Split(Tail(line), <<>>, IF cur = <<>> THEN done ELSE Append(done, cur))
    ELSE Split(Tail(line), Append(cur, Head(line)), done)

\* columns[index] with a negative index counting from the end.
Column(columns, index) ==
    LET k == IF index < 0 THEN index + Len(columns) ELSE index
    IN  IF k < 0 \/ k >= Len(columns)
        THEN Raised(<<IndexError>>)
        ELSE Returned(columns[k + 1])

\* The body of the loop over the lines of a block for one line: the two
\* labels of the line, the gold one decoded first.
DecodeLine(line) ==
    LET columns == Split(line, <<>>, <<>>)
        gcol == Column(columns, gold_column)
        glab == process_label(gcol.value)
        scol == Column(columns, syst_column)
        slab == process_label(scol.value)
        invalid == ValueError("Invalid line", NoIndex, line)
    IN  IF gcol.raised THEN gcol
        ELSE IF glab.raised THEN Raised(<<invalid>> \o glab.errors)
        ELSE IF scol.raised THEN scol
        ELSE IF slab.raised THEN Raised(<<invalid>> \o slab.errors)
        ELSE Returned(<<glab.value, slab.value>>)

RECURSIVE DecodeBlock(_, _, _)
\* The loop over the lines of a block, stopping at the first raise.
DecodeBlock(block, gold_labels, syst_labels) ==
    IF block = <<>>
    THEN Returned(<<gold_labels, syst_labels>>)
    ELSE LET d == DecodeLine(Head(block))
         IN  IF d.raised
             THEN d
             ELSE DecodeBlock(Tail(block), Append(gold_labels, d.value[1]),
                              Append(syst_labels, d.value[2]))

ToSet(xs) == {xs[k] : k \in DOMAIN xs}

\* process_block extracting the system sequence before the gold one.
process_block_SystFirst(block, mode, name) ==
    LET d == DecodeBlock(block, <<>>, <<>>)
        gold_labels == d.value[1]
        syst_labels == d.value[2]
        g == spans_from_labels(gold_labels, mode)
        s == spans_from_labels(syst_labels, mode)
    IN  IF d.raised THEN d
        ELSE IF s.raised
        THEN Raised(<<ValueError("Invalid sys label sequence", NoIndex, syst_labels),
                      s.error>>)
        ELSE IF g.raised
        THEN Raised(<<ValueError("Invalid gold label sequence", NoIndex, gold_labels),
                      g.error>>)
        ELSE aligned_score(ToSet(g.spans), ToSet(s.spans), name)

process_block(block, mode, name) ==
    LET d == DecodeBlock(block, <<>>, <<>>)
        gold_labels == d.value[1]
        syst_labels == d.value[2]
        g == spans_from_labels(gold_labels, mode)
        s == spans_from_labels(syst_labels, mode)
    IN  IF d.raised THEN d
        ELSE IF g.raised
        THEN Raised(<<ValueError("Invalid gold label sequence", NoIndex, gold_labels),
                      g.error>>)
        ELSE IF s.raised
        THEN Raised(<<ValueError("Invalid sys label sequence", NoIndex, syst_labels),
                      s.error>>)
        ELSE aligned_score(ToSet(g.spans), ToSet(s.spans), name)

(***************************************************************************)
(* SpecSpans: spans_from_labels run one label at a time.                   *)
(***************************************************************************)
ExtractorState ==
    [spans |-> spans, current_start |-> current_start,
     current_type |-> current_type, raised |-> epc = "raised", error |-> eerror]

SetExtractor(st, pcOk) ==
    /\ spans' = st.spans
    /\ current_start' = st.current_start
    /\ current_type' = st.current_type
    /\ eerror' = st.error
    /\ epc' = IF st.raised THEN "raised" ELSE pcOk

IdleSpans ==
    /\ labels = <<>>
    /\ spans = <<>>
    /\ current_start = NoStart
    /\ current_type = NoType
    /\ epc = "idle"
    /\ eerror = NoError

IdleScore ==
    /\ gold = {}
    /\ syst = {}
    /\ cpc = "idle"
    /\ scored = NoResult

IdleFile ==
    /\ lines = <<>>
    /\ lineno = 0
    /\ current_block = <<>>
    /\ tru_pos = <<>>
    /\ tru = <<>>
    /\ pos = <<>>
    /\ pc = "idle"
    /\ result = <<>>
    /\ ferror = <<>>
    /\ report = <<>>

IdleRound ==
    /\ known = {}
    /\ length = 0

InitSpans ==
    /\ labels = <<>>
    /\ spans = <<>>
    /\ current_start = NoStart
    /\ current_type = NoType
    /\ epc = "loop"
    /\ eerror = NoError
    /\ bilou \in BOOLEAN
    /\ score = "strict"
    /\ IdleScore
    /\ IdleFile
    /\ IdleRound

\* The loop takes the next label of the iterable.
NextLabel ==
    /\ epc = "loop"
    /\ Len(labels) < MaxLen
    /\ \E label \in Labels :
         /\ labels' = Append(labels, label)
         /\ SetExtractor(LoopBody(ExtractorState, Len(labels), label, bilou), "loop")
    /\ UNCHANGED <<bilou, score, cvars, fvars, rvars>>

\* The iterable is exhausted: the code after the loop, then the return.
EndOfLabels ==
    /\ epc = "loop"
    /\ SetExtractor(AfterLoop(ExtractorState, Len(labels), bilou), "returned")
    /\ UNCHANGED <<labels, bilou, score, cvars, fvars, rvars>>

NextSpans == NextLabel \/ EndOfLabels

SpecSpans == InitSpans /\ [][NextSpans]_vars

(***************************************************************************)
(* SpecRound: a set of pairwise non-overlapping spans over a sequence of   *)
(* a given length is written as labels, which spans_from_labels then reads *)
(* one at a time.                                                          *)
(***************************************************************************)
RECURSIVE SpanSetsFrom(_, _)
\* The sets of pairwise non-overlapping spans within [k, n).
SpanSetsFrom(k, n) ==
    IF k >= n
    THEN {{}}
    ELSE SpanSetsFrom(k + 1, n)
            \cup UNION {{{TypedSpan(k, e, t)} \cup rest : rest \in SpanSetsFrom(e, n)}
                          : e \in (k + 1)..n, t \in Types}

\* The label of the token at the 0-based index k: U for a span of one token
\* and B I* L for a longer one in BILOU mode, B I* in BIO mode, O elsewhere.
EncodedLabel(S, k, mode) ==
    IF \E sp \in S : sp.start <= k /\ k < sp.end
    THEN LET sp == CHOOSE x \in S : x.start <= k /\ k < x.end
         IN  [action |-> IF mode /\ sp.end - sp.start = 1 THEN "U"
                         ELSE IF k = sp.start THEN "B"
                         ELSE IF mode /\ k = sp.end - 1 THEN "L"
                         ELSE "I",
              type |-> sp.type]
    ELSE [action |-> "O", type |-> ""]

InitRound ==
    /\ IdleScore
    /\ IdleFile
    /\ bilou \in BOOLEAN
    /\ score = "strict"
    /\ length \in 0..MaxLen
    /\ known \in SpanSetsFrom(0, length)
    /\ labels = <<>>
    /\ spans = <<>>
    /\ current_start = NoStart
    /\ current_type = NoType
    /\ epc = "loop"
    /\ eerror = NoError

\* The loop takes the next label of the encoding.
NextEncodedLabel ==
    /\ epc = "loop"
    /\ Len(labels) < length
    /\ LET label == EncodedLabel(known, Len(labels), bilou)
       IN  /\ labels' = Append(labels, label)
           /\ SetExtractor(LoopBody(ExtractorState, Len(labels), label, bilou), "loop")
    /\ UNCHANGED <<bilou, score, cvars, fvars, rvars>>

\* The encoding is exhausted: the code after the loop, then the return.
EndOfEncoding ==
    /\ epc = "loop"
    /\ Len(labels) = length
    /\ SetExtractor(AfterLoop(ExtractorState, Len(labels), bilou), "returned")
    /\ UNCHANGED <<labels, bilou, score, cvars, fvars, rvars>>

NextRound == NextEncodedLabel \/ EndOfEncoding

SpecRound == InitRound /\ [][NextRound]_vars

(***************************************************************************)
(* SpecScore: one call of aligned_score on two collections of spans.       *)
(***************************************************************************)
SpanUniverse ==
    {TypedSpan(a, b, t) : a \in 0..MaxPos, b \in 0..MaxPos, t \in Types}

Collections ==
    {c \in SUBSET {sp \in SpanUniverse : sp.start < sp.end} :
        Cardinality(c) <= MaxSpans}

InitScore ==
    /\ IdleSpans
    /\ IdleFile
    /\ IdleRound
    /\ bilou = TRUE
    /\ score \in SCORES
    /\ gold \in Collections
    /\ syst \in Collections
    /\ cpc = "call"
    /\ scored = NoResult

CallAlignedScore ==
    /\ cpc = "call"
    /\ scored' = aligned_score(gold, syst, score)
    /\ cpc' = IF scored'.raised THEN "raised" ELSE "returned"
    /\ UNCHANGED <<gold, syst, bilou, score, svars, fvars, rvars>>

NextScore == CallAlignedScore

SpecScore == InitScore /\ [][NextScore]_vars

(***************************************************************************)
(* Spec: main_entry_point calling process_file on the stripped lines of    *)
(* the input, which the loop takes from the iterable one at a time.  A     *)
(* line is a sequence of characters, the blank line the empty sequence.    *)
(***************************************************************************)
PER == <<"P", "E", "R">>
LOC == <<"L", "O", "C">>
Tag(type, action) == type \o <<"_", action>>
\* A line of two columns: the system label, then the gold label.
Line(system, reference) == system \o <<" ">> \o reference
Blank == <<>>

LineAlphabet ==
    { Line(Tag(PER, "B"), Tag(PER, "B")),
      Line(Tag(PER, "L"), Tag(PER, "L")),
      Line(Tag(<<>>, "O"), Tag(<<>>, "O")),
      Line(Tag(<<>>, "O"), Tag(LOC, "U")),
      Line(Tag(PER, "B"), Tag(PER, "I")),
      Line(Tag(PER, "L"), Tag(LOC, "U")),
      Line(<<"X">>, <<"O">>),
      Blank }

Init ==
    /\ IdleSpans
    /\ IdleScore
    /\ IdleRound
    /\ bilou \in BOOLEAN
    /\ score \in SCORES \cup {"jaccard"}
    /\ lines = <<>>
    /\ lineno = 0
    /\ current_block = <<>>
    /\ tru_pos = <<>>
    /\ tru = <<>>
    /\ pos = <<>>
    /\ pc = "main"
    /\ result = <<>>
    /\ ferror = <<>>
    /\ report = <<>>

KeyError(key) ==
    [kind |-> "KeyError", text |-> "", at |-> NoIndex, shown |-> <<key>>]
ZeroDivisionError ==
    [kind |-> "ZeroDivisionError", text |-> "float division by zero",
     at |-> NoIndex, shown |-> ""]

\* main_entry_point up to the call of process_file: SCORES[...] is looked up
\* while the arguments of the call are built.
CallProcessFile ==
    /\ pc = "main"
    /\ IF score \in SCORES
       THEN pc' = "loop" /\ ferror' = ferror
       ELSE pc' = "crashed" /\ ferror' = <<KeyError(score)>>
    /\ UNCHANGED <<lines, lineno, current_block, tru_pos, tru, pos, result,
                   report, bilou, score, svars, cvars, rvars>>

\* The number of the blank line itself.
BlockStart_BlankLine(i, block) == i
\* The line number in the message of process_file: i is the number of the
\* blank line that ended the block.
BlockStart(i, block) == i - Len(block)

\* The lines of the scored block stay in current_block.
ResetBlock_Kept(block) == block
\* current_block after a block was scored.
ResetBlock(block) == <<>>

\* One iteration of the loop of process_file, on the next line l.
ReadLine ==
    /\ pc = "loop"
    /\ Len(lines) < MaxLines
    /\ \E l \in LineAlphabet :
         /\ lines' = Append(lines, l)
         /\ lineno' = lineno + 1
         /\ IF l = Blank
            THEN LET b == process_block(current_block, bilou, score)
                     tp == b.value[1]
                     t == b.value[2]
                     p == b.value[3]
                 IN  IF b.raised
                     THEN /\ pc' = "raised"
                          /\ ferror' =
                               IF b.errors[1].kind = "ValueError"
                               THEN <<ValueError(
                                        "Invalid value in block starting at line",
                                        BlockStart(lineno', current_block), "")>>
                                    \o b.errors
                               ELSE b.errors
                          /\ UNCHANGED <<current_block, tru_pos, tru, pos>>
                     ELSE /\ tru_pos' = Append(tru_pos, tp)
                          /\ tru' = Append(tru, t)
                          /\ pos' = Append(pos, p)
                          /\ current_block' = ResetBlock(current_block)
                          /\ UNCHANGED <<pc, ferror>>
            ELSE /\ current_block' = Append(current_block, l)
                 /\ UNCHANGED <<tru_pos, tru, pos, pc, ferror>>
    /\ UNCHANGED <<result, report, bilou, score, svars, cvars, rvars>>

\* The iterable is exhausted: process_file returns the three sums.
EndOfInput ==
    /\ pc = "loop"
    /\ pc' = "returned"
    /\ result' = <<fsum(tru_pos), fsum(tru), fsum(pos)>>
    /\ UNCHANGED <<lines, lineno, current_block, tru_pos, tru, pos, ferror,
                   report, bilou, score, svars, cvars, rvars>>

\* main_entry_point after process_file returned: P, R and F, printed.
\* A ratio n / d is the pair <<n, d>>.
PrintReport ==
    /\ pc = "returned"
    /\ LET m_tru_pos == result[1]
           m_tru == result[2]
           m_pos == result[3]
       IN  IF m_pos = 0 \/ m_tru = 0
           THEN /\ pc' = "crashed"
                /\ ferror' = <<ZeroDivisionError>>
                /\ report' = report
           ELSE /\ pc' = "printed"
                /\ report' = [p |-> <<m_tru_pos, m_pos>>,
                              r |-> <<m_tru_pos, m_tru>>,
                              f |-> <<2 * m_tru_pos, m_tru + m_pos>>]
                /\ ferror' = ferror
    /\ UNCHANGED <<lines, lineno, current_block, tru_pos, tru, pos, result,
                   bilou, score, svars, cvars, rvars>>

Next == CallProcessFile \/ ReadLine \/ EndOfInput \/ PrintReport

Spec == Init /\ [][Next]_vars

(***************************************************************************)
(* The input seen from outside: its blocks, and for each block the spans   *)
(* of its two columns.                                                     *)
(***************************************************************************)
RECURSIVE BlocksOf(_, _, _)
\* <<the blocks ended by a blank line, the lines after the last blank line>>
BlocksOf(ls, cur, done) ==
    IF ls = <<>>
    THEN <<done, cur>>
    ELSE IF Head(ls) = Blank
    THEN BlocksOf(Tail(ls), <<>>, Append(done, cur))
    ELSE BlocksOf(Tail(ls), Append(cur, Head(ls)), done)

TerminatedBlocks == BlocksOf(lines, <<>>, <<>>)[1]
TrailingBlock == BlocksOf(lines, <<>>, <<>>)[2]

GoldOf(block) ==
    spans_from_labels(DecodeBlock(block, <<>>, <<>>).value[1], bilou)
SystOf(block) ==
    spans_from_labels(DecodeBlock(block, <<>>, <<>>).value[2], bilou)
Malformed(block) ==
    \/ DecodeBlock(block, <<>>, <<>>).raised
    \/ GoldOf(block).raised
    \/ SystOf(block).raised

RECURSIVE SumOver(_, _)
SumOver(Op(_), blocks) ==
    IF blocks = <<>> THEN 0 ELSE Op(Head(blocks)) + SumOver(Op, Tail(blocks))

MatchedIn(block) ==
    Assignment(ToSet(SystOf(block).spans), ToSet(GoldOf(block).spans), score)
GoldSelfIn(block) == SelfSum(ToSet(GoldOf(block).spans), score)
SystSelfIn(block) == SelfSum(ToSet(SystOf(block).spans), score)

MatchedTotal == SumOver(MatchedIn, TerminatedBlocks)
GoldTotal == SumOver(GoldSelfIn, TerminatedBlocks)
SystTotal == SumOver(SystSelfIn, TerminatedBlocks)

\* The ratio <<n, d>> is a / b.
RatioIs(ratio, a, b) == ratio[2] # 0 /\ b # 0 /\ ratio[1] * b = a * ratio[2]

(***************************************************************************)
(* Claims about process_file and main_entry_point (Spec)                   *)
(***************************************************************************)
\* C1: the printed precision is the matched total over the system
\* self-similarity total, the printed recall the matched total over the gold
\* self-similarity total.
C1_PrecisionOverSystem ==
    pc = "printed" =>
        /\ RatioIs(report.p, MatchedTotal, SystTotal)
        /\ RatioIs(report.r, MatchedTotal, GoldTotal)

\* C3: when process_file returns, the lines after the last blank line have
\* been scored as a block: one triple per block, the last one included.
C3_TrailingBlockScored ==
    (pc = "returned" /\ TrailingBlock # <<>>) =>
        Len(tru_pos) = Len(TerminatedBlocks) + 1

\* C4: a blank line that ends a block of zero lines raises nothing and
\* leaves the three running totals as they were.
C4_EmptyBlockSkipped ==
    [][(pc = "loop" /\ current_block = <<>> /\ lines' = Append(lines, Blank)) =>
         /\ pc' = "loop"
         /\ fsum(tru_pos') = fsum(tru_pos)
         /\ fsum(tru') = fsum(tru)
         /\ fsum(pos') = fsum(pos)]_vars

\* C5: process_file never returns totals for an input holding a malformed
\* block, wherever the block is, the block after the last blank line included.
C5_FailFast ==
    pc = "returned" =>
        /\ \A k \in 1..Len(TerminatedBlocks) : ~Malformed(TerminatedBlocks[k])
        /\ ~Malformed(TrailingBlock)

\* C7: the matched score of every scored block is at most its gold and its
\* system self-similarity sum, the running matched total at most either
\* running total, and the printed precision and recall at most 1.
C7_MatchedBounded ==
    /\ \A k \in 1..Len(tru_pos) : tru_pos[k] <= Min(tru[k], pos[k])
    /\ fsum(tru_pos) <= Min(fsum(tru), fsum(pos))
    /\ pc = "printed" =>
          /\ report.p[1] <= report.p[2]
          /\ report.r[1] <= report.r[2]

\* Two blocks scored with Dice, the first with partial credit only.
C7_Witness ==
    /\ score = "dice"
    /\ pc = "printed"
    /\ Len(tru_pos) = 2
    /\ 0 < tru_pos[1] /\ tru_pos[1] < Min(tru[1], pos[1])
    /\ tru[1] # pos[1]

RECURSIVE TripleSum(_)
\* The component-wise sum of the triples of process_block over blocks.
TripleSum(blocks) ==
    IF blocks = <<>>
    THEN <<0, 0, 0>>
    ELSE LET h == process_block(Head(blocks), bilou, score).value
             t == TripleSum(Tail(blocks))
         IN  <<h[1] + t[1], h[2] + t[2], h[3] + t[3]>>

Permuted(blocks, perm) == [k \in 1..Len(blocks) |-> blocks[perm[k]]]

\* C15: while the file is read the three accumulators hold, block by block,
\* the triple process_block gives for that block alone, and the three totals
\* returned are the component-wise sum of these triples taken in any order
\* of the blank-line-terminated blocks.
C15_TotalsAreBlockSums ==
    /\ pc = "loop" =>
          /\ Len(tru_pos) = Len(TerminatedBlocks)
          /\ \A k \in 1..Len(TerminatedBlocks) :
                <<tru_pos[k], tru[k], pos[k]>> =
                    process_block(TerminatedBlocks[k], bilou, score).value
    /\ pc = "returned" =>
          \A perm \in Permutations(1..Len(TerminatedBlocks)) :
              result = TripleSum(Permuted(TerminatedBlocks, perm))

\* Two blocks with different triples, the second one made of lines that give
\* other spans when read after the line of the first.
C15_Witness ==
    /\ pc = "returned"
    /\ Len(TerminatedBlocks) = 2
    /\ Len(TerminatedBlocks[2]) = 2
    /\ process_block(TerminatedBlocks[1], bilou, score).value
         # process_block(TerminatedBlocks[2], bilou, score).value
    /\ result[2] = 3 * Scale

\* The 1-based number of the first line of the block ended by the last line
\* read.
FirstLineOfLastBlock ==
    CHOOSE j \in 1..Len(lines) :
        /\ \A k \in j..(Len(lines) - 1) : lines[k] # Blank
        /\ j = 1 \/ lines[j - 1] = Blank

\* C16: when a block fails in label decoding or in span extraction, the error
\* of process_file carries the 1-based number of the first line of the block,
\* and under it either the raw line that could not be decoded, or the side
\* and the decoded label sequence of the side that could not be extracted.
C16_BlockErrorReport ==
    (pc = "raised" /\ current_block # <<>> /\ Malformed(current_block)) =>
        /\ ferror[1].text = "Invalid value in block starting at line"
        /\ ferror[1].at = FirstLineOfLastBlock
        /\ lines[ferror[1].at] = current_block[1]
        /\ \/ /\ ferror[2].text = "Invalid line"
              /\ \E k \in 1..Len(current_block) :
                    /\ ferror[2].shown = current_block[k]
                    /\ DecodeLine(current_block[k]).raised
           \/ /\ ferror[2].text = "Invalid gold label sequence"
              /\ GoldOf(current_block).raised
              /\ ferror[2].shown = DecodeBlock(current_block, <<>>, <<>>).value[1]
           \/ /\ ferror[2].text = "Invalid sys label sequence"
              /\ SystOf(current_block).raised
              /\ ferror[2].shown = DecodeBlock(current_block, <<>>, <<>>).value[2]

\* A failing block that starts at line 4, after a scored block of two lines.
C16_Witness ==
    /\ pc = "raised"
    /\ Len(tru_pos) = 1
    /\ Len(current_block) = 1
    /\ ferror[1].at = 4
    /\ ferror[2].text = "Invalid sys label sequence"

\* C17: a score name that is not registered ends the run before any line is
\* read, with an error that lists the registered names.
C17_UnknownScoreListsNames ==
    (score \notin SCORES /\ pc # "main") =>
        /\ pc = "crashed"
        /\ lines = <<>>
        /\ SCORES \subseteq ToSet(ferror[1].shown)

\* C19: a well-formed block of at least one line in which exactly one column
\* gives no span does not abort process_file.
C19_OneSidedBlockScored ==
    ~ /\ pc = "raised"
      /\ current_block # <<>>
      /\ ~Malformed(current_block)
      /\ (SystOf(current_block).spans = <<>>) # (GoldOf(current_block).spans = <<>>)

\* The first line of block that cannot be decoded.
FirstUndecodable(block) ==
    block[CHOOSE k \in 1..Len(block) :
            /\ DecodeLine(block[k]).raised
            /\ \A j \in 1..(k - 1) : ~DecodeLine(block[j]).raised]

\* The last column of line, a line of two columns.
LastColumn(line) ==
    LET sp == CHOOSE k \in 1..Len(line) : line[k] = " "
    IN  SubSeq(line, sp + 1, Len(line))

\* C20: a failing block reports its first undecodable line, with the gold
\* label of that line when the gold label is at fault, whatever the label
\* sequences of the block; with every line decodable it reports the gold
\* sequence when this one is illegal, and the system sequence only when the
\* gold one is legal.
C20_ErrorOrder ==
    (pc = "raised" /\ current_block # <<>> /\ Malformed(current_block)) =>
        IF DecodeBlock(current_block, <<>>, <<>>).raised
        THEN /\ ferror[2].text = "Invalid line"
             /\ ferror[2].shown = FirstUndecodable(current_block)
             /\ process_label(LastColumn(ferror[2].shown)).raised =>
                   ferror[3].shown = LastColumn(ferror[2].shown)
        ELSE IF GoldOf(current_block).raised
        THEN /\ ferror[2].text = "Invalid gold label sequence"
             /\ ferror[3] = GoldOf(current_block).error
        ELSE /\ ferror[2].text = "Invalid sys label sequence"
             /\ ferror[3] = SystOf(current_block).error

\* Both sequences are illegal and the gold one is reported.
C20_Witness ==
    /\ pc = "raised"
    /\ bilou
    /\ current_block # <<>>
    /\ ~DecodeBlock(current_block, <<>>, <<>>).raised
    /\ GoldOf(current_block).raised
    /\ SystOf(current_block).raised
    /\ ferror[2].text = "Invalid gold label sequence"

(***************************************************************************)
(* Claims about aligned_score (SpecScore)                                  *)
(***************************************************************************)
\* C2: the triple is (matched score, sum of the gold self-similarities, sum
\* of the system self-similarities), also when the two collections differ
\* in size.
C2_TripleOrder ==
    (cpc = "returned" /\ Cardinality(gold) # Cardinality(syst)) =>
        scored.value = <<Assignment(syst, gold, score),
                         SelfSum(gold, score), SelfSum(syst, score)>>

\* C6: with exact-match similarity the call returns, whatever the two
\* collections (empty ones included), and the matched score is the size of
\* their intersection.
C6_ExactIsIntersection ==
    (cpc # "call" /\ score = "strict") =>
        /\ cpc = "returned"
        /\ scored.value[1] = Cardinality(gold \cap syst) * Scale

\* C14: with either similarity function every span has self-similarity 1, so
\* the sum over the system spans is their number and the sum over the gold
\* spans is theirs.
C14_SelfSimilarityIsOne ==
    /\ \A sp \in gold \cup syst : Similarity(score, sp, sp) = Scale
    /\ cpc = "returned" =>
          /\ scored.value[2] = Cardinality(syst) * Scale
          /\ scored.value[3] = Cardinality(gold) * Scale

C14_Witness ==
    /\ cpc = "returned"
    /\ score = "dice"
    /\ Cardinality(gold) = 2
    /\ Cardinality(syst) = 1
    /\ \E sp \in gold : sp.end - sp.start = 2

(***************************************************************************)
(* Claims about spans_from_labels (SpecSpans)                              *)
(***************************************************************************)
Last(s) == s[Len(s)]
TookLabel == epc = "loop" /\ labels' # labels
Ended == epc = "loop" /\ labels' = labels /\ epc' # "loop"
Open == current_start # NoStart

\* C8: in BILOU mode a B, an O or a U arriving while a span is open raises
\* "Invalid label at" for that index, and the end of the sequence with a span
\* still open raises "Unclosed segment"; the call returns no spans.
C8_BilouRejectsUnclosed ==
    [][(bilou /\ epc = "loop" /\ Open) =>
         /\ (TookLabel /\ Last(labels').action \in {"B", "O", "U"}) =>
               /\ epc' = "raised"
               /\ eerror'.text = "Invalid label at"
               /\ eerror'.at = Len(labels)
         /\ Ended =>
               /\ epc' = "raised"
               /\ eerror'.text = "Unclosed segment"]_vars

C8_Witness ==
    /\ bilou
    /\ epc = "raised"
    /\ Len(labels) = 3
    /\ labels[1].action = "B" /\ labels[2].action = "I" /\ labels[3].action = "O"
    /\ eerror.at = 2

\* C9: in BIO mode an open span (s, t) is closed without error by the next
\* O or B at index i, emitting [s, i) with type t, or by the end of a
\* sequence of length n, emitting [s, n) with type t; L and U always raise.
C9_BioImplicitClose ==
    [][(~bilou /\ epc = "loop") =>
         /\ (TookLabel /\ Open /\ Last(labels').action \in {"O", "B"}) =>
               /\ epc' = "loop"
               /\ spans' = Append(spans,
                      TypedSpan(current_start, Len(labels), current_type))
         /\ (Ended /\ Open) =>
               /\ epc' = "returned"
               /\ spans' = Append(spans,
                      TypedSpan(current_start, Len(labels), current_type))
         /\ (TookLabel /\ Last(labels').action \in {"L", "U"}) =>
               /\ epc' = "raised"
               /\ spans' = spans]_vars

C9_Witness ==
    /\ ~bilou
    /\ epc = "loop"
    /\ Len(labels) = 3
    /\ labels[1] = [action |-> "B", type |-> "PER"]
    /\ labels[2] = [action |-> "I", type |-> "PER"]
    /\ labels[3] = [action |-> "B", type |-> "LOC"]
    /\ spans = <<TypedSpan(0, 2, "PER")>>

\* C10: an I (and in BILOU an L) is accepted only when a span is open and
\* the label's type is the open span's type, and raises otherwise without
\* emitting; so the labels under every emitted span share the span's type.
C10_InsideNeedsOpenSameType ==
    /\ [][(TookLabel /\ (Last(labels').action = "I"
                          \/ (bilou /\ Last(labels').action = "L"))) =>
             IF Open /\ Last(labels').type = current_type
             THEN epc' = "loop"
             ELSE epc' = "raised" /\ spans' = spans]_vars
    /\ [](\A k \in 1..Len(spans) :
            \A j \in spans[k].start .. spans[k].end - 1 :
               labels[j + 1].type = spans[k].type)

C10_Witness ==
    /\ epc = "raised"
    /\ Len(labels) = 2
    /\ labels[1] = [action |-> "B", type |-> "PER"]
    /\ labels[2] = [action |-> "I", type |-> "LOC"]
    /\ eerror.text = "Incoherent label type at"

\* C12: every error the extractor raises carries the index of the offending
\* label and its action, the error for a span left open at the end of a
\* BILOU sequence included.
C12_ErrorsCarryIndexAndAction ==
    [][/\ (TookLabel /\ epc' = "raised") =>
             /\ eerror'.at = Len(labels)
             /\ eerror'.shown = Last(labels').action
       /\ (Ended /\ epc' = "raised") =>
             /\ eerror'.at # NoIndex
             /\ eerror'.shown \in Actions]_vars

\* C13: every emitted span lies within the labels read so far and is not
\* empty: 0 <= start < end <= length.
C13_SpansNonEmptyInRange ==
    \A k \in 1..Len(spans) :
        /\ 0 <= spans[k].start
        /\ spans[k].start < spans[k].end
        /\ spans[k].end <= Len(labels)

\* BIO mode: a span closed by a B, one closed by an O, one closed by the end.
C13_Witness ==
    /\ ~bilou
    /\ epc = "returned"
    /\ spans = <<TypedSpan(0, 1, "PER"), TypedSpan(1, 2, "LOC"),
                 TypedSpan(3, 4, "PER")>>

\* C18: the emitted spans come in increasing order without overlap (each
\* start is at least the previous end), so no two are equal and the set of
\* the list has as many elements as the list.
C18_SpansOrderedDisjoint ==
    /\ \A k \in 1..(Len(spans) - 1) : spans[k].end <= spans[k + 1].start
    /\ Cardinality(ToSet(spans)) = Len(spans)

C18_Witness ==
    /\ bilou
    /\ epc = "returned"
    /\ Len(spans) = 3
    /\ spans[1].end = spans[2].start
    /\ spans[2].end < spans[3].start

(***************************************************************************)
(* Claims about the round trip (SpecRound)                                 *)
(***************************************************************************)
\* C11: reading the labels that encode a set of pairwise non-overlapping
\* spans, in BILOU or in BIO mode, never raises and returns exactly that set.
C11_RoundTrip ==
    /\ epc # "raised"
    /\ epc = "returned" => ToSet(spans) = known

\* Two directly adjacent spans and a one-token span, read back in BIO mode.
C11_Witness ==
    /\ ~bilou
    /\ epc = "returned"
    /\ length = 4
    /\ known = {TypedSpan(0, 2, "PER"), TypedSpan(2, 3, "PER"),
                TypedSpan(3, 4, "LOC")}
    /\ ToSet(spans) = known

====
